---- MODULE Spec2Model ----
(***************************************************************************)
(* Model of the FVA-600 attenuator driver (FVA_600.py, FVA_600_utilities.py) *)
(*                                                                         *)
(* The driver is single threaded.  Its state is the session object         *)
(* (is_closed, HANDLE, device_descriptor), the position of the one caller  *)
(* thread (fr: the running method and its locals, q: the running           *)
(* query_device call and its locals) and the transport handle.  Every      *)
(* transport call (USBPurge, USBWrite, USBRead, USBClose, USBSet...) is    *)
(* one step whose answer (status, byte count, bytes) is chosen by the      *)
(* environment.  The code between two transport calls runs in the step of  *)
(* the call that precedes it.                                              *)
(***************************************************************************)
EXTENDS Integers, Sequences, FiniteSets, TLC

(***************************************************************************)
(* Program constants                                                       *)
(***************************************************************************)
DefaultRetry == 10
ZeroAttempts == 10
HeaderLen == 3

CmdIdentity == 0
CmdFirmware == 58
CmdRemote == 112
CmdNbAttSteps == 161
CmdAttStep == 163
CmdNbWavelengths == 165
CmdWavelengthAt == 167
CmdSetWavelength == 177
CmdSetAttenuation == 179
CmdCurrentState == 183
CmdDoZero == 186
CmdSpecs == 187
CmdStatus == 188

FT_OK == 0
FT_IO_ERROR == 4

(***************************************************************************)
(* Bounds of the model                                                     *)
(***************************************************************************)
\* largest retry budget a direct caller of query_device passes
MaxRetry == 2
\* largest element count the device reports for its wavelength / step lists
MaxList == 1
\* largest wavelength a caller passes to the setter (values are 0..MaxWl)
MaxWl == 3
\* a caller passes the attenuations 0, 7, .., 7 * MaxAtt (thousandths of a dB)
MaxAtt == 4
\* the per-operation counters stop counting at this value
CountCap == 2

(***************************************************************************)
(* Error taxonomy                                                          *)
(***************************************************************************)
\* DeviceErrorTypes: the values of the enumeration
DeviceErrorTypes ==
    {0, 4, 5, 6, 7, 8, 9, 10, 15, 34, 36, 37, 38, 40, 41, 42, 43, 44, 45, 46,
     47, 48, 49, 79, 81, 82, 83, 85, 90, 92}

\* USBStatus: the values of the enumeration (OK = 0, INVALID_HANDLE = 1, auto()...)
USBStatus == 0..18

\* an exception: its class, its message and the number the message carries
Exc(type, msg, code) == [type |-> type, msg |-> msg, code |-> code]
NoError == Exc("", "", 0)

DeviceErrorName(value) ==
    CASE value = 4 -> "OSCILLATOR_FAULT"
      [] value = 5 -> "PROTOCOL_ERROR"
      [] value = 6 -> "UNDEFINED_COMMAND"
      [] value = 7 -> "BAD_COMMAND_LEVEL"
      [] value = 8 -> "PARAMETER_ERROR"
      [] value = 9 -> "TOO_LONG_RESPONSE"
      [] value = 10 -> "INVALID_CRC"
      [] value = 15 -> "INTERNAL_TIME_OUT"
      [] value = 34 -> "CONFIGURATION_ERROR"
      [] value = 36 -> "INCONSISTENT_CALIBRATION"
      [] value = 37 -> "ATTENUATOR_NOT_CALIBRATED"
      [] value = 38 -> "SUSPICIOUS_CALIBRATION"
      [] value = 40 -> "PROTECTED_EEPROM"
      [] value = 41 -> "EEPROM_VERSION_ERROR"
      [] value = 42 -> "WRITE_EEPROM_ERROR"
      [] value = 43 -> "EPPROM_NOT_RESPONDING"
      [] value = 44 -> "CAL_EEPROM_NOT_PRESENT"
      [] value = 45 -> "DATA_EEPROM_NOT_PRESENT"
      [] value = 46 -> "CAL_EEPROM_NOT_CONFIG"
      [] value = 47 -> "DATA_EEPROM_NOT_CONFIG"
      [] value = 48 -> "DATA_RECORDER_PROBLEM"
      [] value = 49 -> "READ_EEPROM_ERROR"
      [] value = 79 -> "TEMPERATURE_NOT_PRESENT"
      [] value = 81 -> "MOTOR_OPTO_SWITCH"
      [] value = 82 -> "MOTOR_SETTLING"
      [] value = 83 -> "MOTOR_CORRECTING"
      [] value = 85 -> "MOTOR_FIRST_HOME"
      [] value = 90 -> "MOTOR_POSITION"
      [] value = 92 -> "MOTOR_MALFUNCTION"
      [] OTHER -> "OK"

\* mutant of CheckDeviceError: a code outside the enumeration is let through
UnknownIsOk(value) ==
    IF value \in DeviceErrorTypes /\ value # 0
    THEN Exc("DeviceError", DeviceErrorName(value), value)
    ELSE NoError

\* CheckDeviceError(value): the exception it raises, NoError when it returns
CheckDeviceError(value) ==
    IF value \notin DeviceErrorTypes
    THEN Exc("DeviceError", "Unknown error", value)
    ELSE IF value # 0
         THEN Exc("DeviceError", DeviceErrorName(value), value)
         ELSE NoError

\* Check_FT(status): the errcheck of every imported transport function
Check_FT(status) ==
    IF status \notin USBStatus
    THEN Exc("ValueError", "not a valid USBStatus", status)
    ELSE IF status # FT_OK
         THEN Exc("USBCommError", "USBStatus", status)
         ELSE NoError

Timeout == Exc("Exception", "USB communication timeout", 0)
SessionClosed == Exc("SystemError", "The communication with the device is closed", 0)
\* raise last_error / raise current_error when the loop never bound the name
Unbound == Exc("UnboundLocalError", "local variable referenced before assignment", 0)
StructError == Exc("struct.error", "unpack requires a buffer", 0)
SplitError == Exc("ValueError", "not enough values to unpack", 0)
DescrFailure == Exc("SystemError", "Device properties read : failure", 0)
NoDevice == Exc("SystemError", "No compatible device found !", 0)

(***************************************************************************)
(* Commands, frames and responses                                          *)
(***************************************************************************)
\* struct.pack('<B', code), struct.pack('<BB', code, arg), struct.pack('<Bf', code, arg)
PackB(code) == [code |-> code, arg |-> 0, len |-> 1]
PackBB(code, arg) == [code |-> code, arg |-> arg, len |-> 2]
PackBf(code, arg) == [code |-> code, arg |-> arg, len |-> 5]
NoCommand == [code |-> 0, arg |-> 0, len |-> 0]

\* len(final_buf): '<H{n}s' then '<{n+2}sH' : length prefix, command, crc16
FinalLen(command) == 2 + command.len + 2

\* the command codes of the protocol
Codes ==
    {CmdIdentity, CmdFirmware, CmdRemote, CmdNbAttSteps, CmdAttStep,
     CmdNbWavelengths, CmdWavelengthAt, CmdSetWavelength, CmdSetAttenuation,
     CmdCurrentState, CmdDoZero, CmdSpecs, CmdStatus}

\* the codes whose writes are counted (up to CountCap)
Counted == {CmdRemote, CmdSetWavelength, CmdSetAttenuation, CmdDoZero}

\* transport statuses the environment answers with
FtStatuses == {FT_OK, FT_IO_ERROR}

\* header error codes the device answers with: OK, a known error
\* (PROTOCOL_ERROR) and a code outside DeviceErrorTypes
HeaderCodes == {0, 5, 3}

\* the wavelength ranges (nm) and the attenuation ranges (thousandths of a dB)
\* a device reports
WlRanges == {<<1, 2>>, <<2, 2>>}
AttRanges == {<<4, 16>>, <<12, 12>>}

\* response bodies of the device, by command code, as the decoded fields;
\* <<>> is a body too short for the command's unpack format
Bodies(code) ==
    CASE code = CmdStatus ->
            {<<a, b, c>> : a \in {0, 1}, b \in {0, 1}, c \in {0, 1}} \cup {<<>>}
      [] code = CmdCurrentState ->
            {<<2, 12, r[1], r[2]>> : r \in AttRanges} \cup {<<>>}
      [] code = CmdIdentity -> {<<1, 2, 3>>, <<>>}
      [] code = CmdFirmware -> {<<7>>}
      [] code = CmdSpecs -> {<<r[1], r[2], 9, 1, 1>> : r \in WlRanges} \cup {<<>>}
      [] code \in {CmdNbWavelengths, CmdNbAttSteps} -> {<<n>> : n \in 0..MaxList}
      [] code \in {CmdWavelengthAt, CmdAttStep} -> {<<1>>}
      [] OTHER -> {<<>>}

\* DeviceStatus
DISCONNECTED == "DISCONNECTED"
DEFECTIVE == "DEFECTIVE"
IDLE == "IDLE"
SETTLING == "SETTLING"
CORRECTING == "CORRECTING"

(***************************************************************************)
(* State                                                                   *)
(***************************************************************************)
VARIABLES
    phase,              \* "init": in __init__; "live": constructed; "failed":
                        \* __init__ raised; "dead": finalized
    is_closed,          \* self.is_closed
    HANDLE,             \* the transport handle: "null", "open", "closed"
    device_descriptor,  \* self.device_descriptor, <<>> while unset
    fr,                 \* the running method and its locals
    q,                  \* the running query_device call and its locals
    ret,                \* how the last finished operation ended
    qs,                 \* history: counts of the transport calls of the running query
    ops                 \* history: counts of the running operation and of the session

vars == <<phase, is_closed, HANDLE, device_descriptor, fr, q, ret, qs, ops>>

NoRes == [kind |-> "none", err |-> NoError, body |-> <<>>]
Ok(body) == [kind |-> "ok", err |-> NoError, body |-> body]
Err(e) == [kind |-> "err", err |-> e, body |-> <<>>]

QNone ==
    [st |-> "none", command |-> NoCommand, retry |-> 0, i |-> 0,
     last_error |-> NoError, error |-> 0, length |-> 0, res |-> NoRes]

QsNone ==
    [purges |-> 0, writes |-> 0, headers |-> 0, bodies |-> 0,
     deverrs |-> 0, fault |-> NoError]

NoDescr == <<>>

FrNone ==
    [op |-> "none", pc |-> "none", try |-> 0, i |-> 0, nb |-> 0, value |-> 0,
     wait |-> FALSE, stat |-> "", err |-> NoError, current_error |-> NoError,
     wlr |-> <<>>, wl_list |-> <<>>, att_steps |-> <<>>, nth |-> 0,
     was_closed |-> FALSE, had_handle |-> FALSE]

RetNone ==
    [op |-> "none", kind |-> "none", err |-> NoError, val |-> <<>>, status |-> "",
     nth |-> 0, was_closed |-> FALSE, had_handle |-> FALSE, value |-> 0, try |-> 0]

\* sent, calls: the writes and the query_device calls of the running method of a
\* constructed session, by command code; wire: a transport call was made by the
\* running method; closes, usb_closes: the calls of close() and of USBClose in
\* the session, counted 0, 1, 2 (two or more)
OpsNone ==
    [sent |-> [c \in Counted |-> 0], calls |-> [c \in Codes |-> 0], wire |-> FALSE,
     closes |-> 0, usb_closes |-> 0]

Cap(n) == IF n >= CountCap THEN CountCap ELSE n + 1
Again(n) == IF n >= 2 THEN 2 ELSE n + 1

(***************************************************************************)
(* query_device                                                            *)
(***************************************************************************)
\* the call query_device(command, retry): the frame of a call about to run
StartQuery(command, retry) ==
    [QNone EXCEPT !.st = "entry", !.command = command, !.retry = retry]

\* mutant of ClosedCheck: the check of is_closed is missing
NeverClosed(closed) == FALSE

\* if self.is_closed: raise SystemError(...)
ClosedCheck(closed) == closed

\* for i in range(retry): the loop runs its body for index i
InRange(i, retry) == i < retry

\* mutant of IsCaught: a bare except clause
CatchesAll(e) == TRUE

\* except DeviceError as err: the exceptions the clause catches
IsCaught(e) == e.type = "DeviceError"

\* mutant of Retained: the first error is kept
RetainedFirst(old, err) == IF old = NoError THEN err ELSE old

\* last_error = err
Retained(old, err) == err

\* raise last_error: an unbound name raises UnboundLocalError instead
RaiseName(e) == IF e = NoError THEN Unbound ELSE e

\* an exception leaves query_device
Raise(qq, e) == [qq EXCEPT !.st = "ret", !.res = Err(e)]

\* mutant of LoopNext: an attempt starts at the write, without the purge
LoopSkipsPurge(qq, i) ==
    IF InRange(i, qq.retry)
    THEN [qq EXCEPT !.st = "write", !.i = i]
    ELSE Raise(qq, RaiseName(qq.last_error))

\* the head of the for loop at index i, and its else clause
LoopNext(qq, i) ==
    IF InRange(i, qq.retry)
    THEN [qq EXCEPT !.st = "purge", !.i = i]
    ELSE Raise(qq, RaiseName(qq.last_error))

\* an exception e raised inside the try block of attempt qq.i
ExceptClause(qq, e) ==
    IF IsCaught(e)
    THEN LoopNext([qq EXCEPT !.last_error = Retained(qq.last_error, e)], qq.i + 1)
    ELSE Raise(qq, e)

\* LEN_WRITTEN after USBWrite of n bytes / USBRead of n bytes
Transferred(n) == IF n > 0 THEN {n, n - 1} ELSE {n}

\* history: a transport call that failed (status or byte count) in this call
Faulted(qstat, e) ==
    IF e # NoError /\ e.type # "DeviceError" /\ qstat.fault = NoError
    THEN [qstat EXCEPT !.fault = e] ELSE qstat

Wire == [ops EXCEPT !.wire = TRUE]

QueryEntry ==
    /\ q.st = "entry"
    /\ q' = IF ClosedCheck(is_closed) THEN Raise(q, SessionClosed) ELSE LoopNext(q, 0)
    /\ qs' = QsNone
    /\ ops' = IF phase = "init" THEN ops
              ELSE [ops EXCEPT !.calls[q.command.code] = Cap(@)]
    /\ UNCHANGED <<phase, is_closed, HANDLE, device_descriptor, fr, ret>>

\* USBPurge(self.HANDLE, 3) at the head of an attempt
QPurge ==
    /\ q.st = "purge"
    /\ \E s \in FtStatuses :
         LET e == Check_FT(s) IN
         /\ q' = IF e # NoError THEN ExceptClause(q, e) ELSE [q EXCEPT !.st = "write"]
         /\ qs' = Faulted([qs EXCEPT !.purges = @ + 1], e)
    /\ ops' = Wire
    /\ UNCHANGED <<phase, is_closed, HANDLE, device_descriptor, fr, ret>>

\* USBWrite(self.HANDLE, final_buf, final_len, ...) and the length check
QWrite ==
    /\ q.st = "write"
    /\ \E s \in FtStatuses, n \in Transferred(FinalLen(q.command)) :
         LET final_len == FinalLen(q.command)
             e == IF Check_FT(s) # NoError THEN Check_FT(s)
                  ELSE IF n # final_len THEN Timeout ELSE NoError
         IN
         /\ s # FT_OK => n = final_len
         /\ q' = IF e # NoError THEN ExceptClause(q, e) ELSE [q EXCEPT !.st = "hdr"]
         /\ qs' = Faulted([qs EXCEPT !.writes = @ + 1], e)
    /\ ops' = [Wire EXCEPT !.sent =
                 IF q.command.code \in Counted /\ phase # "init"
                 THEN [@ EXCEPT ![q.command.code] = Cap(@)] ELSE @]
    /\ UNCHANGED <<phase, is_closed, HANDLE, device_descriptor, fr, ret>>

\* USBRead of the 3 byte header, struct.unpack("<BH"), CheckDeviceError, break
QReadHeader ==
    /\ q.st = "hdr"
    /\ \E s \in FtStatuses, n \in Transferred(HeaderLen), error \in HeaderCodes,
          length \in {Len(b) : b \in Bodies(q.command.code)} :
         LET e == IF Check_FT(s) # NoError THEN Check_FT(s)
                  ELSE IF n # HeaderLen THEN Timeout ELSE CheckDeviceError(error)
         IN
         /\ s # FT_OK => n = HeaderLen
         /\ (s # FT_OK \/ n # HeaderLen) => (error = 0 /\ length = 0)
         /\ q' = IF e # NoError
                 THEN ExceptClause([q EXCEPT !.error = error, !.length = length], e)
                 ELSE [q EXCEPT !.st = "body", !.error = error, !.length = length]
         /\ qs' = Faulted(
                    [qs EXCEPT !.headers = @ + 1,
                               !.deverrs = IF e.type = "DeviceError" THEN @ + 1 ELSE @],
                    e)
    /\ ops' = Wire
    /\ UNCHANGED <<phase, is_closed, HANDLE, device_descriptor, fr, ret>>

\* USBRead of the body and the length check, after the loop
QReadBody ==
    /\ q.st = "body"
    /\ \E s \in FtStatuses, n \in Transferred(q.length),
          body \in {b \in Bodies(q.command.code) : Len(b) = q.length} :
         LET e == IF Check_FT(s) # NoError THEN Check_FT(s)
                  ELSE IF n # q.length THEN Timeout ELSE NoError
         IN
         /\ s # FT_OK => n = q.length
         /\ q' = IF e # NoError THEN Raise(q, e)
                 ELSE [q EXCEPT !.st = "purge2", !.res = Ok(body)]
         /\ qs' = Faulted([qs EXCEPT !.bodies = @ + 1], e)
    /\ ops' = Wire
    /\ UNCHANGED <<phase, is_closed, HANDLE, device_descriptor, fr, ret>>

\* the closing USBPurge and return bytes(BUFFER2)
QPurge2 ==
    /\ q.st = "purge2"
    /\ \E s \in FtStatuses :
         LET e == Check_FT(s) IN
         /\ q' = IF e # NoError THEN Raise(q, e) ELSE [q EXCEPT !.st = "ret"]
         /\ qs' = Faulted([qs EXCEPT !.purges = @ + 1], e)
    /\ ops' = Wire
    /\ UNCHANGED <<phase, is_closed, HANDLE, device_descriptor, fr, ret>>

(***************************************************************************)
(* The methods of FVA600                                                   *)
(***************************************************************************)
\* a public method returns or raises: the caller has the result
Return(opname, r, stat) ==
    /\ ret' = [op |-> opname, kind |-> r.kind, err |-> r.err, val |-> r.body,
               status |-> stat, nth |-> fr.nth, was_closed |-> fr.was_closed,
               had_handle |-> fr.had_handle, value |-> fr.value, try |-> fr.try]
    /\ fr' = FrNone
    /\ q' = QNone

\* a public method returns or raises before its first call of query_device
ReturnNow(opname, r, stat, nth, value) ==
    /\ ret' = [op |-> opname, kind |-> r.kind, err |-> r.err, val |-> r.body,
               status |-> stat, nth |-> nth, was_closed |-> is_closed,
               had_handle |-> (HANDLE = "open"), value |-> value, try |-> 0]
    /\ fr' = FrNone
    /\ q' = QNone

\* history: the counts of an operation that begins
NewOp == [OpsNone EXCEPT !.closes = ops.closes, !.usb_closes = ops.usb_closes]

\* the caller is between two calls on a constructed session
Idle == phase = "live" /\ fr.op = "none"

\* a method begins: it calls query_device at the call site pc
Frame(opname, pc) ==
    [FrNone EXCEPT !.op = opname, !.pc = pc, !.was_closed = is_closed,
                   !.had_handle = (HANDLE = "open")]

BeginWith(frame, command, retry) ==
    /\ fr' = frame
    /\ q' = StartQuery(command, retry)
    /\ ret' = RetNone
    /\ ops' = NewOp

Begin(opname, pc, command, retry) == BeginWith(Frame(opname, pc), command, retry)

\* mutant of StatusOf: the settling flag is tested before the correcting flag
SettlingFirst(body) ==
    IF body[1] = 1 THEN SETTLING
    ELSE IF body[2] = 1 THEN CORRECTING
    ELSE IF body[3] = 1 THEN DEFECTIVE
    ELSE IDLE

\* the status property, lines 141-149, on the body of the status query
StatusOf(body) ==
    IF body[2] = 1 THEN CORRECTING
    ELSE IF body[1] = 1 THEN SETTLING
    ELSE IF body[3] = 1 THEN DEFECTIVE
    ELSE IDLE

\* what self.status gives once its query_device call has ended with res
StatusResult(res) ==
    IF res.kind = "err" THEN [err |-> res.err, status |-> ""]
    ELSE IF Len(res.body) < 3 THEN [err |-> StructError, status |-> ""]
    ELSE [err |-> NoError, status |-> StatusOf(res.body)]

StatusQuery == StartQuery(PackB(CmdStatus), DefaultRetry)

\* query_device(command, retry) called by the user of the session
CallQuery ==
    /\ Idle
    /\ \E code \in {CmdStatus, CmdDoZero}, retry \in 0..MaxRetry :
         Begin("query", "query", PackB(code), retry)
    /\ qs' = QsNone
    /\ UNCHANGED <<phase, is_closed, HANDLE, device_descriptor>>

QueryReturn ==
    /\ fr.op = "query" /\ q.st = "ret"
    /\ Return("query", q.res, "")
    /\ UNCHANGED <<phase, is_closed, HANDLE, device_descriptor, qs, ops>>

\* the status property
CallStatus ==
    /\ Idle
    /\ IF is_closed
       THEN /\ ReturnNow("status", Ok(<<>>), DISCONNECTED, 0, 0)
            /\ ops' = NewOp
       ELSE Begin("status", "status", PackB(CmdStatus), DefaultRetry)
    /\ qs' = QsNone
    /\ UNCHANGED <<phase, is_closed, HANDLE, device_descriptor>>

\* the caller gets the decoded status; ret.val keeps the flags it was decoded from
StatusReturn ==
    /\ fr.op = "status" /\ q.st = "ret"
    /\ LET so == StatusResult(q.res) IN
         IF so.err # NoError THEN Return("status", Err(so.err), "")
         ELSE Return("status", Ok(q.res.body), so.status)
    /\ UNCHANGED <<phase, is_closed, HANDLE, device_descriptor, qs, ops>>

\* set_remote(remote)
CallSetRemote ==
    /\ Idle
    /\ \E remote \in BOOLEAN :
         Begin("set_remote", "remote",
               PackBB(CmdRemote, IF remote THEN 1 ELSE 0), DefaultRetry)
    /\ qs' = QsNone
    /\ UNCHANGED <<phase, is_closed, HANDLE, device_descriptor>>

SetRemoteReturn ==
    /\ fr.op = "set_remote" /\ q.st = "ret"
    /\ Return("set_remote", IF q.res.kind = "err" THEN q.res ELSE Ok(<<>>), "")
    /\ UNCHANGED <<phase, is_closed, HANDLE, device_descriptor, qs, ops>>

\* mutant of BelowMinimum: the lower bound is excluded
BelowOrEqual(value, range) == value <= range[1]

\* the wavelength setter: the two range checks
BelowMinimum(value, range) == value < range[1]
AboveMaximum(value, range) == value > range[2]
BelowError(value) == Exc("ValueError", "The given wavelength is below the minimum", value)
AboveError(value) == Exc("ValueError", "the given wavelength is above the maximum", value)

CallSetWavelength ==
    /\ Idle
    /\ \E value \in 0..MaxWl :
         LET wlRange == device_descriptor.wavelengthRange IN
         IF BelowMinimum(value, wlRange)
         THEN /\ ReturnNow("set_wavelength", Err(BelowError(value)), "", 0, value)
              /\ ops' = NewOp
         ELSE IF AboveMaximum(value, wlRange)
         THEN /\ ReturnNow("set_wavelength", Err(AboveError(value)), "", 0, value)
              /\ ops' = NewOp
         ELSE BeginWith([Frame("set_wavelength", "wl_set") EXCEPT !.value = value],
                        PackBf(CmdSetWavelength, value), DefaultRetry)
    /\ qs' = QsNone
    /\ UNCHANGED <<phase, is_closed, HANDLE, device_descriptor>>

\* mutant of StillSettling: the wait loop never runs its body
NeverWaits(stat) == FALSE

\* while self.status == DeviceStatus.SETTLING: the loop goes round again
StillSettling(stat) == stat = SETTLING

\* the wavelength setter after query_device (177) and in its wait loop
WavelengthStep ==
    /\ fr.op = "set_wavelength" /\ q.st = "ret"
    /\ IF fr.pc = "wl_set"
       THEN IF q.res.kind = "err" THEN Return("set_wavelength", q.res, "")
            ELSE IF is_closed THEN Return("set_wavelength", Ok(<<>>), DISCONNECTED)
            ELSE fr' = [fr EXCEPT !.pc = "wl_wait"] /\ q' = StatusQuery /\ ret' = ret
       ELSE LET so == StatusResult(q.res) IN
            IF so.err # NoError THEN Return("set_wavelength", Err(so.err), "")
            ELSE IF StillSettling(so.status)
            THEN fr' = fr /\ q' = StatusQuery /\ ret' = ret
            ELSE Return("set_wavelength", Ok(<<>>), so.status)
    /\ UNCHANGED <<phase, is_closed, HANDLE, device_descriptor, qs, ops>>

\* round(x, 2) on a value in thousandths: to the nearest hundredth, a tie to
\* the even one
Round2(m) ==
    LET r == m % 10
        down == m - r
    IN IF r < 5 THEN down
       ELSE IF r > 5 THEN down + 10
       ELSE IF (down \div 10) % 2 = 0 THEN down ELSE down + 10

\* the current_state property on the body of its query: wavelength, attRange, attenuation
CurrentState(body) == <<body[1], Round2(body[3]), Round2(body[4]), Round2(body[2])>>

\* the current_state property (and the wavelength and attenuation getters on it)
CallCurrentState ==
    /\ Idle
    /\ Begin("current_state", "state", PackB(CmdCurrentState), DefaultRetry)
    /\ qs' = QsNone
    /\ UNCHANGED <<phase, is_closed, HANDLE, device_descriptor>>

CurrentStateReturn ==
    /\ fr.op = "current_state" /\ q.st = "ret"
    /\ IF q.res.kind = "err" THEN Return("current_state", q.res, "")
       ELSE IF Len(q.res.body) < 4 THEN Return("current_state", Err(StructError), "")
       ELSE Return("current_state", Ok(CurrentState(q.res.body)), "")
    /\ UNCHANGED <<phase, is_closed, HANDLE, device_descriptor, qs, ops>>

\* mutant of AttTooBig: the upper bound is excluded
AttAtOrAbove(value, range) == value >= range[2]

\* the attenuation setter: the two range checks
AttTooSmall(value, range) == value < range[1]
AttTooBig(value, range) == value > range[2]
SmallError(value) == Exc("ValueError", "Attenuation is smaller than minimum", value)
BigError(value) == Exc("ValueError", "Attenuation is bigger than maximum", value)

CallSetAttenuation ==
    /\ Idle
    /\ \E k \in 0..MaxAtt :
         BeginWith([Frame("set_attenuation", "att_range") EXCEPT !.value = 7 * k],
                   PackB(CmdCurrentState), DefaultRetry)
    /\ qs' = QsNone
    /\ UNCHANGED <<phase, is_closed, HANDLE, device_descriptor>>

\* the attenuation setter after current_state, after query_device (179) and in
\* its wait loop
AttenuationStep ==
    /\ fr.op = "set_attenuation" /\ q.st = "ret"
    /\ CASE fr.pc = "att_range" ->
              IF q.res.kind = "err" THEN Return("set_attenuation", q.res, "")
              ELSE IF Len(q.res.body) < 4
              THEN Return("set_attenuation", Err(StructError), "")
              ELSE LET cs == CurrentState(q.res.body)
                       attRange == <<cs[2], cs[3]>>
                       value == Round2(fr.value)
                   IN IF AttTooSmall(value, attRange)
                      THEN Return("set_attenuation", Err(SmallError(value)), "")
                      ELSE IF AttTooBig(value, attRange)
                      THEN Return("set_attenuation", Err(BigError(value)), "")
                      ELSE /\ fr' = [fr EXCEPT !.pc = "att_set", !.value = value]
                           /\ q' = StartQuery(PackBf(CmdSetAttenuation, value),
                                              DefaultRetry)
                           /\ ret' = ret
         [] fr.pc = "att_set" ->
              IF q.res.kind = "err" THEN Return("set_attenuation", q.res, "")
              ELSE IF is_closed THEN Return("set_attenuation", Ok(<<>>), DISCONNECTED)
              ELSE fr' = [fr EXCEPT !.pc = "att_wait"] /\ q' = StatusQuery /\ ret' = ret
         [] OTHER ->
              LET so == StatusResult(q.res) IN
              IF so.err # NoError THEN Return("set_attenuation", Err(so.err), "")
              ELSE IF StillSettling(so.status)
              THEN fr' = fr /\ q' = StatusQuery /\ ret' = ret
              ELSE Return("set_attenuation", Ok(<<>>), so.status)
    /\ UNCHANGED <<phase, is_closed, HANDLE, device_descriptor, qs, ops>>

\* mutant of NotIdle: only a running zero calibration is refused
OnlyCorrectingBusy(stat) == stat = CORRECTING

\* do_zero_device: the precondition
NotIdle(stat) == stat # IDLE
\* DeviceError(f"The device is not idle : status {stat.name}"): msg is stat.name
NotIdleError(stat) == Exc("DeviceError", stat, 0)

\* for i in range(10) of do_zero_device runs its body for index i
ZeroInRange(i) == i < ZeroAttempts

\* mutant of AckRace: the re-check never ends the loop
AckNever(stat) == FALSE

\* if self.status == DeviceStatus.CORRECTING: break
AckRace(stat) == stat = CORRECTING

\* mutant of StillCorrecting: the wait loop goes round whatever the status
WaitsOnAny(stat) == TRUE

\* while self.status == DeviceStatus.CORRECTING: the loop goes round again
StillCorrecting(stat) == stat = CORRECTING

\* raise current_error
RaiseCurrent(e) == IF e = NoError THEN Unbound ELSE e

\* the command of one iteration of the outer loop: query_device(186, retry = 0)
ZeroRetry == 0
ZeroQuery == StartQuery(PackB(CmdDoZero), ZeroRetry)

CallDoZero ==
    /\ Idle
    /\ \E wait_for_end \in BOOLEAN :
         IF is_closed
         THEN /\ ReturnNow("do_zero", Err(NotIdleError(DISCONNECTED)), DISCONNECTED, 0, 0)
              /\ ops' = NewOp
         ELSE BeginWith([Frame("do_zero", "zero_pre") EXCEPT !.wait = wait_for_end],
                        PackB(CmdStatus), DefaultRetry)
    /\ qs' = QsNone
    /\ UNCHANGED <<phase, is_closed, HANDLE, device_descriptor>>

\* after the outer loop of do_zero_device
ZeroAfterLoop ==
    IF fr.wait /\ ~is_closed
    THEN fr' = [fr EXCEPT !.pc = "zero_wait"] /\ q' = StatusQuery /\ ret' = ret
    ELSE Return("do_zero", Ok(<<>>), fr.stat)

\* the end of one iteration of the outer loop that did not break
ZeroNext(err) ==
    IF ZeroInRange(fr.i + 1)
    THEN /\ fr' = [fr EXCEPT !.pc = "zero_cmd", !.i = @ + 1, !.current_error = err]
         /\ q' = ZeroQuery
         /\ ret' = ret
    ELSE Return("do_zero", Err(RaiseCurrent(err)), fr.stat)

DoZeroStep ==
    /\ fr.op = "do_zero" /\ q.st = "ret"
    /\ CASE fr.pc = "zero_pre" ->
              LET so == StatusResult(q.res) IN
              IF so.err # NoError THEN Return("do_zero", Err(so.err), "")
              ELSE IF NotIdle(so.status)
              THEN Return("do_zero", Err(NotIdleError(so.status)), so.status)
              ELSE /\ fr' = [fr EXCEPT !.pc = "zero_cmd", !.i = 0, !.stat = so.status]
                   /\ q' = ZeroQuery
                   /\ ret' = ret
         [] fr.pc = "zero_cmd" ->
              IF q.res.kind = "ok" THEN ZeroAfterLoop
              ELSE IF is_closed THEN ZeroNext(q.res.err)
              ELSE /\ fr' = [fr EXCEPT !.pc = "zero_recheck", !.err = q.res.err]
                   /\ q' = StatusQuery
                   /\ ret' = ret
         [] fr.pc = "zero_recheck" ->
              LET so == StatusResult(q.res) IN
              IF so.err # NoError THEN Return("do_zero", Err(so.err), fr.stat)
              ELSE IF AckRace(so.status) THEN ZeroAfterLoop
              ELSE ZeroNext(fr.err)
         [] OTHER ->
              LET so == StatusResult(q.res) IN
              IF so.err # NoError THEN Return("do_zero", Err(so.err), fr.stat)
              ELSE IF StillCorrecting(so.status)
              THEN fr' = fr /\ q' = StatusQuery /\ ret' = ret
              ELSE Return("do_zero", Ok(<<>>), fr.stat)
    /\ UNCHANGED <<phase, is_closed, HANDLE, device_descriptor, qs, ops>>

(***************************************************************************)
(* close, __exit__, __del__                                                *)
(***************************************************************************)
\* if not self.is_closed:
CloseGuard(closed) == ~closed

LocalQuery == StartQuery(PackBB(CmdRemote, 0), DefaultRetry)

\* close() returns or raises inside the operation fr.op
EndClose(r) ==
    IF fr.op = "init"
    THEN /\ phase' = "failed"
         /\ Return("init", Err(IF r.kind = "err" THEN r.err ELSE DescrFailure), "")
    ELSE /\ phase' = IF fr.op = "del" THEN "dead" ELSE phase
         /\ Return(fr.op, r, "")

\* close() begins inside the method opname
BeginClose(opname) ==
    /\ LET frame == [Frame(opname, "remote_off") EXCEPT !.nth = Again(ops.closes)] IN
         IF CloseGuard(is_closed)
         THEN /\ fr' = frame
              /\ q' = LocalQuery
              /\ ret' = RetNone
              /\ phase' = phase
         ELSE /\ ReturnNow(opname, Ok(<<>>), "", frame.nth, 0)
              /\ phase' = IF opname = "del" THEN "dead" ELSE phase
    /\ ops' = [NewOp EXCEPT !.closes = Again(@)]
    /\ qs' = QsNone
    /\ UNCHANGED <<is_closed, HANDLE, device_descriptor>>

\* close() and __exit__(*args) called by the user of the session
CallClose ==
    /\ Idle
    /\ \E opname \in {"close", "exit"} : BeginClose(opname)

\* __del__(): the session object is finalized, constructed or not
Finalize ==
    /\ \/ Idle
       \/ phase = "failed"
    /\ BeginClose("del")

\* close() after set_remote(False)
CloseStep ==
    /\ fr.pc = "remote_off" /\ q.st = "ret"
    /\ IF q.res.kind = "err"
       THEN EndClose(q.res)
       ELSE /\ fr' = [fr EXCEPT !.pc = "usb_close"]
            /\ q' = QNone
            /\ UNCHANGED <<ret, phase>>
    /\ UNCHANGED <<is_closed, HANDLE, device_descriptor, qs, ops>>

\* mutant of ClosedFlag: close() leaves the flag false
StaysOpen == FALSE

\* self.is_closed = True, the last statement of close()
ClosedFlag == TRUE

\* USBClose(self.HANDLE) ; self.is_closed = True
CloseUSB ==
    /\ fr.pc = "usb_close"
    /\ \E s \in FtStatuses :
         LET e == Check_FT(s) IN
         IF e # NoError
         THEN /\ EndClose(Err(e))
              /\ UNCHANGED <<is_closed, HANDLE>>
         ELSE /\ HANDLE' = "closed"
              /\ is_closed' = ClosedFlag
              /\ EndClose(Ok(<<>>))
    /\ ops' = [Wire EXCEPT !.usb_closes = Again(@)]
    /\ UNCHANGED <<device_descriptor, qs>>

(***************************************************************************)
(* __init__ and populate_device_descr                                      *)
(***************************************************************************)
\* the line configuration calls of __init__: USBSetTimeouts, USBSetLatency,
\* USBSetBaudRate, USBSetDataCharacteristics, USBSetFlowControl
NbConfigCalls == 5

\* __init__ raises e: the object is never handed to the caller
InitRaises(e) ==
    /\ phase' = "failed"
    /\ Return("init", Err(e), "")

\* list_num = list_devices()
InitListDevices ==
    /\ phase = "init" /\ fr.pc = "list"
    /\ \E s \in FtStatuses, found \in BOOLEAN :
         LET e == Check_FT(s) IN
         /\ s # FT_OK => found = FALSE
         /\ IF e # NoError THEN InitRaises(e)
            ELSE IF ~found THEN InitRaises(NoDevice)
            ELSE fr' = [fr EXCEPT !.pc = "usb_open"] /\ UNCHANGED <<phase, ret, q>>
    /\ ops' = Wire
    /\ UNCHANGED <<is_closed, HANDLE, device_descriptor, qs>>

\* USBOpen(list_num[index_to_open], byref(self.HANDLE)) ; self.is_closed = False
InitUSBOpen ==
    /\ phase = "init" /\ fr.pc = "usb_open"
    /\ \E s \in FtStatuses :
         LET e == Check_FT(s) IN
         IF e # NoError
         THEN InitRaises(e) /\ UNCHANGED <<is_closed, HANDLE>>
         ELSE /\ HANDLE' = "open"
              /\ is_closed' = FALSE
              /\ fr' = [fr EXCEPT !.pc = "cfg", !.i = 0, !.had_handle = TRUE]
              /\ UNCHANGED <<phase, ret, q>>
    /\ ops' = Wire
    /\ UNCHANGED <<device_descriptor, qs>>

\* the five USBSet... calls, then self.set_remote(True)
InitConfigure ==
    /\ phase = "init" /\ fr.pc = "cfg"
    /\ \E s \in FtStatuses :
         LET e == Check_FT(s) IN
         IF e # NoError THEN InitRaises(e)
         ELSE IF fr.i + 1 < NbConfigCalls
         THEN fr' = [fr EXCEPT !.i = @ + 1] /\ UNCHANGED <<phase, ret, q>>
         ELSE /\ fr' = [fr EXCEPT !.pc = "remote_on", !.i = 0]
              /\ q' = StartQuery(PackBB(CmdRemote, 1), DefaultRetry)
              /\ UNCHANGED <<phase, ret>>
    /\ ops' = Wire
    /\ UNCHANGED <<is_closed, HANDLE, device_descriptor, qs>>

\* populate_device_descr() begins: query_device(pyint_to_byte(0))
PopulateBegin(try) ==
    /\ fr' = [fr EXCEPT !.pc = "descr_id", !.try = try, !.i = 0, !.nb = 0,
                        !.wlr = <<>>, !.wl_list = <<>>, !.att_steps = <<>>]
    /\ q' = StartQuery(PackB(CmdIdentity), DefaultRetry)

\* the number of descriptor reads __init__ makes before it gives up
DescrReads == 2

\* populate_device_descr() raises: the except clauses of __init__
PopulateRaises ==
    IF fr.try < DescrReads
    THEN PopulateBegin(fr.try + 1) /\ UNCHANGED <<phase, ret, device_descriptor>>
    ELSE /\ IF CloseGuard(is_closed)
            THEN /\ fr' = [fr EXCEPT !.pc = "remote_off", !.nth = Again(ops.closes)]
                 /\ q' = LocalQuery
                 /\ UNCHANGED <<phase, ret>>
            ELSE InitRaises(DescrFailure)
         /\ UNCHANGED device_descriptor

\* the next query of populate_device_descr, in a frame f
PopulateQuery(f, pc, command) ==
    /\ fr' = [f EXCEPT !.pc = pc]
    /\ q' = StartQuery(command, DefaultRetry)
    /\ UNCHANGED <<phase, ret, device_descriptor>>

\* return DeviceDescriptor(...) ; __init__ returns
PopulateReturns(f) ==
    /\ device_descriptor' =
         [wavelengthRange |-> f.wlr, wavelengthsList |-> f.wl_list,
          attStepList |-> f.att_steps]
    /\ phase' = "live"
    /\ Return("init", Ok(<<>>), "")

\* __init__ after set_remote(True) and after each query of populate_device_descr
InitStep ==
    /\ phase = "init" /\ q.st = "ret" /\ fr.pc # "remote_off"
    /\ LET body == q.res.body IN
       CASE fr.pc = "remote_on" ->
              IF q.res.kind = "err"
              THEN InitRaises(q.res.err) /\ UNCHANGED device_descriptor
              ELSE PopulateBegin(1) /\ UNCHANGED <<phase, ret, device_descriptor>>
         [] q.res.kind = "err" -> PopulateRaises
         [] fr.pc = "descr_id" ->
              IF Len(body) < 3 THEN PopulateRaises
              ELSE PopulateQuery(fr, "descr_fw", PackB(CmdFirmware))
         [] fr.pc = "descr_fw" -> PopulateQuery(fr, "descr_specs", PackB(CmdSpecs))
         [] fr.pc = "descr_specs" ->
              IF Len(body) < 5 THEN PopulateRaises
              ELSE PopulateQuery([fr EXCEPT !.wlr = <<body[1], body[2]>>],
                                 "descr_nwl", PackB(CmdNbWavelengths))
         [] fr.pc = "descr_nwl" ->
              IF body[1] > 0
              THEN PopulateQuery([fr EXCEPT !.nb = body[1], !.i = 0],
                                 "descr_wl", PackBB(CmdWavelengthAt, 0))
              ELSE PopulateQuery(fr, "descr_natt", PackB(CmdNbAttSteps))
         [] fr.pc = "descr_wl" ->
              LET f == [fr EXCEPT !.wl_list = Append(@, body[1]), !.i = @ + 1] IN
              IF f.i < f.nb
              THEN PopulateQuery(f, "descr_wl", PackBB(CmdWavelengthAt, f.i))
              ELSE PopulateQuery(f, "descr_natt", PackB(CmdNbAttSteps))
         [] fr.pc = "descr_natt" ->
              IF body[1] > 0
              THEN PopulateQuery([fr EXCEPT !.nb = body[1], !.i = 0],
                                 "descr_att", PackBB(CmdAttStep, 0))
              ELSE PopulateReturns(fr)
         [] OTHER ->
              LET f == [fr EXCEPT !.att_steps = Append(@, body[1]), !.i = @ + 1] IN
              IF f.i < f.nb
              THEN PopulateQuery(f, "descr_att", PackBB(CmdAttStep, f.i))
              ELSE PopulateReturns(f)
    /\ ops' = IF fr'.pc = "remote_off" THEN [ops EXCEPT !.closes = Again(@)] ELSE ops
    /\ UNCHANGED <<is_closed, HANDLE, qs>>

(***************************************************************************)
(* The system                                                              *)
(***************************************************************************)
\* the first statement of __init__ has run: self.is_closed = True
InitOpen ==
    /\ phase = "init"
    /\ is_closed = TRUE
    /\ HANDLE = "null"
    /\ device_descriptor = NoDescr
    /\ fr = [FrNone EXCEPT !.op = "init", !.pc = "list"]
    /\ q = QNone
    /\ ret = RetNone
    /\ qs = QsNone
    /\ ops = OpsNone

\* the life of a session object from __init__ to its finalization
NextOpen ==
    \/ InitListDevices
    \/ InitUSBOpen
    \/ InitConfigure
    \/ InitStep
    \/ QueryEntry
    \/ QPurge
    \/ QWrite
    \/ QReadHeader
    \/ QReadBody
    \/ QPurge2
    \/ Finalize
    \/ CloseStep
    \/ CloseUSB

SpecOpen == InitOpen /\ [][NextOpen]_vars

\* the descriptors __init__ leaves on a session it constructed
Descriptors ==
    {[wavelengthRange |-> r, wavelengthsList |-> <<1>>, attStepList |-> <<1>>] :
        r \in WlRanges}

\* __init__ has returned: the session is constructed and open
Init ==
    /\ phase = "live"
    /\ is_closed = FALSE
    /\ HANDLE = "open"
    /\ device_descriptor \in Descriptors
    /\ fr = FrNone
    /\ q = QNone
    /\ ret = [RetNone EXCEPT !.op = "init", !.kind = "ok", !.had_handle = TRUE]
    /\ qs = QsNone
    /\ ops = OpsNone

\* the calls on a constructed session, up to its finalization
Next ==
    \/ QueryEntry
    \/ QPurge
    \/ QWrite
    \/ QReadHeader
    \/ QReadBody
    \/ QPurge2
    \/ CallQuery
    \/ QueryReturn
    \/ CallStatus
    \/ StatusReturn
    \/ CallSetRemote
    \/ SetRemoteReturn
    \/ CallSetWavelength
    \/ WavelengthStep
    \/ CallCurrentState
    \/ CurrentStateReturn
    \/ CallSetAttenuation
    \/ AttenuationStep
    \/ CallDoZero
    \/ DoZeroStep
    \/ CallClose
    \/ Finalize
    \/ CloseStep
    \/ CloseUSB

Spec == Init /\ [][Next]_vars

\* the blocking operations on a constructed, open session
NextBlocking ==
    \/ QueryEntry
    \/ QPurge
    \/ QWrite
    \/ QReadHeader
    \/ QReadBody
    \/ QPurge2
    \/ CallSetWavelength
    \/ WavelengthStep
    \/ CallSetAttenuation
    \/ AttenuationStep
    \/ CallDoZero
    \/ DoZeroStep

\* the steps of the caller's thread inside a method: the thread runs on, and
\* every transport call returns (the timeouts of line 46)
Running ==
    \/ QueryEntry
    \/ QPurge
    \/ QWrite
    \/ QReadHeader
    \/ QReadBody
    \/ QPurge2
    \/ WavelengthStep
    \/ AttenuationStep
    \/ DoZeroStep

\* the wait loops: lines 176-177, 197-198 and 277-278
WaitPcs == {"wl_wait", "att_wait", "zero_wait"}

\* the device answers a status poll of a wait loop with flags that are not
\* those of the status the loop waits on
LeavesTransitional ==
    /\ fr.pc \in WaitPcs
    /\ QReadBody
    /\ q'.res.kind = "ok"
    /\ Len(q'.res.body) = 3
    /\ IF fr.pc = "zero_wait"
       THEN q'.res.body[2] # 1
       ELSE q'.res.body[2] = 1 \/ q'.res.body[1] # 1

\* the blocking operations, the thread running on and the device eventually
\* leaving the status waited on
SpecBlocking ==
    /\ Init
    /\ [][NextBlocking]_vars
    /\ WF_vars(Running)
    /\ SF_vars(LeavesTransitional)

(***************************************************************************)
(* Properties                                                              *)
(***************************************************************************)
\* a query_device call has ended on an open session without a transport fault
EndedClean == q.st = "ret" /\ ~is_closed /\ qs.fault = NoError

\* C1: query_device on an open session with retry budget 0 makes exactly one
\* attempt (one write, one header read) and surfaces its outcome: the body, or
\* the device error of that header.
C1_SingleAttempt ==
    (EndedClean /\ q.retry = 0) =>
        /\ qs.writes = 1
        /\ qs.headers = 1
        /\ \/ q.res.kind = "ok"
           \/ q.res.err.type = "DeviceError" /\ q.res.err.code = q.error

\* C2: with a budget b >= 1 and k device errors followed by OK headers, the
\* call returns the body after k+1 attempts when k < b, and otherwise makes b
\* attempts and raises the device error of attempt b, the last one.
C2_RetryBound ==
    (EndedClean /\ q.retry >= 1) =>
        /\ q.res.kind = "ok" =>
              /\ qs.deverrs < q.retry
              /\ qs.writes = qs.deverrs + 1
              /\ qs.headers = qs.deverrs + 1
              /\ q.error = 0
        /\ q.res.kind = "err" =>
              /\ qs.deverrs = q.retry
              /\ qs.writes = q.retry
              /\ qs.headers = q.retry
              /\ q.error # 0
              /\ q.res.err.type = "DeviceError"
              /\ q.res.err.code = q.error

\* C2: a budget of at least 2 is exhausted by device errors
C2_Witness ==
    /\ EndedClean
    /\ q.retry >= 2
    /\ q.res.kind = "err"
    /\ qs.deverrs = q.retry

\* C3: once a transport call of a query_device call has failed (status, short
\* write, short header, short body), the call has ended with that error: no
\* step of the call is left to run.
C3_FaultEndsCall ==
    (q.st # "none" /\ qs.fault # NoError) =>
        /\ q.st = "ret"
        /\ q.res.kind = "err"
        /\ q.res.err = qs.fault

\* C3: a short header read in the first attempt of a call with budget 10
C3_Witness ==
    /\ q.st = "ret"
    /\ qs.fault = Timeout
    /\ qs.headers = 1
    /\ q.i = 0
    /\ q.retry = DefaultRetry

\* C4: do_zero_device called with status Idle writes the do-zero command at
\* least once (and succeeds after one write on a fault-free link).
C4_ZeroWritesCommand ==
    (ret.op = "do_zero" /\ ret.status = IDLE) => ops.sent[CmdDoZero] >= 1

\* C5: do_zero_device called with a status other than Idle fails with the
\* state error naming that status; its only traffic is the one status query
\* (none when the session is closed) and command 186 is never written.
C5_ZeroPrecondition ==
    (ret.op = "do_zero" /\ ret.status \notin {IDLE, ""}) =>
        /\ ret.kind = "err"
        /\ ret.err.type = "DeviceError"
        /\ ret.err.msg = ret.status
        /\ ops.sent[CmdDoZero] = 0
        /\ \A c \in Codes \ {CmdStatus} : ops.calls[c] = 0
        /\ IF ret.status = DISCONNECTED
           THEN ~ops.wire /\ ops.calls[CmdStatus] = 0 /\ ret.was_closed
           ELSE ops.calls[CmdStatus] = 1 /\ ~ret.was_closed

\* C5: do_zero_device refused on a settling device after its status query
C5_Witness ==
    /\ ret.op = "do_zero"
    /\ ret.status = SETTLING
    /\ ret.kind = "err"
    /\ ops.calls[CmdStatus] = 1
    /\ ops.wire

\* C6: a second or later call of close() raises nothing and makes no
\* transport call; USBClose is called at most once in a session.
C6_IdempotentClose ==
    /\ (ret.op \in {"close", "exit", "del"} /\ ret.nth >= 2) =>
          (ret.kind = "ok" /\ ~ops.wire)
    /\ ops.usb_closes <= 1

\* C7: a release (close, __exit__, __del__) of a session that holds an open
\* handle leaves the handle closed and is_closed true, whatever the outcome
\* of the set-local query.
C7_ReleaseClosesHandle ==
    (ret.op \in {"close", "exit", "del"} /\ ret.had_handle) =>
        (is_closed /\ HANDLE = "closed")

\* C8: when both descriptor reads of __init__ fail, the session is closed
\* (handle released, is_closed true) and __init__ fails with the
\* "Device properties read : failure" error.
C8_OpenFailureCloses ==
    (ret.op = "init" /\ ret.kind = "err" /\ ret.try = DescrReads) =>
        /\ is_closed
        /\ HANDLE = "closed"
        /\ ret.err = DescrFailure

\* what holds in every state of a closed session
ClosedState ==
    /\ is_closed =>
          /\ q.st \in {"none", "entry", "ret"}
          /\ fr.pc # "usb_close"
          /\ q.st = "ret" =>
                /\ q.res.kind = "err"
                /\ q.res.err.msg = "The communication with the device is closed"
                /\ qs = QsNone
    /\ (ret.kind # "none" /\ ret.was_closed) => ~ops.wire
    /\ (ret.op = "status" /\ ret.was_closed) =>
          (ret.kind = "ok" /\ ret.status = DISCONNECTED)
    /\ (ret.op = "status" /\ ~ret.was_closed) => ret.status # DISCONNECTED

\* C9: on a closed session every query_device call fails with the
\* session-closed error before any transport call, status is Disconnected
\* without traffic and only then, and the session stays closed.
C9_ClosedIsTerminal ==
    /\ []ClosedState
    /\ [][is_closed => (is_closed' /\ (ops'.wire => ops.wire))]_vars

\* C9: a query_device call on a closed session has ended
C9_Witness ==
    /\ is_closed
    /\ q.st = "ret"
    /\ q.res.err = SessionClosed
    /\ fr.op = "set_remote"

\* the wavelength setter was called with a value outside the descriptor's range
OutOfRange ==
    \/ ret.value < device_descriptor.wavelengthRange[1]
    \/ ret.value > device_descriptor.wavelengthRange[2]

\* C10 as stated: a wavelength outside the range fails with a validation
\* error and no traffic; a wavelength inside it has command 177 written
\* exactly once.
C10_SentExactlyOnce ==
    ret.op = "set_wavelength" =>
        IF OutOfRange
        THEN ret.kind = "err" /\ ret.err.type = "ValueError" /\ ~ops.wire
        ELSE ops.sent[CmdSetWavelength] = 1

\* C10 amended: a wavelength outside the range fails with a validation error
\* and no query_device call and no traffic; a wavelength inside it, bounds
\* included, passes the check and query_device is called exactly once with
\* command 177, which writes the command at most once per attempt (at most
\* 10 times), and exactly once when the first header is OK.
C10_RangeCheck ==
    /\ ret.op = "set_wavelength" =>
          IF OutOfRange
          THEN /\ ret.kind = "err"
               /\ ret.err.type = "ValueError"
               /\ ret.err.code = ret.value
               /\ ~ops.wire
               /\ \A c \in Codes : ops.calls[c] = 0
          ELSE /\ ops.calls[CmdSetWavelength] = 1
               /\ ret.err.type # "ValueError"
    /\ (fr.pc = "wl_set" /\ q.st = "ret") =>
          /\ q.command = PackBf(CmdSetWavelength, fr.value)
          /\ qs.writes <= q.i + 1
          /\ qs.writes <= DefaultRetry
          /\ (EndedClean /\ qs.deverrs = 0) => qs.writes = 1

\* C10: the lower bound of the range was accepted and the command was
\* written more than once
C10_Witness ==
    /\ ret.op = "set_wavelength"
    /\ ret.kind = "ok"
    /\ ret.value = device_descriptor.wavelengthRange[1]
    /\ ops.sent[CmdSetWavelength] >= 2

\* the current-state query of a running attenuation setter has returned a body
RangeFetched ==
    /\ fr.op = "set_attenuation" /\ fr.pc = "att_range"
    /\ q.st = "ret" /\ q.res.kind = "ok" /\ Len(q.res.body) = 4

\* the target of the running attenuation setter, rounded to 2 decimals, is
\* outside the range of the body just fetched (fields 3 and 4, rounded)
OutsideFetched ==
    \/ Round2(fr.value) < Round2(q.res.body[3])
    \/ Round2(fr.value) > Round2(q.res.body[4])

\* C11, the step after the range was fetched: outside it the setter raises a
\* ValueError carrying the rounded target; inside it, bounds included, the
\* setter calls query_device with command 179 and the rounded target
C11_Validates ==
    RangeFetched =>
        IF OutsideFetched
        THEN /\ ret'.op = "set_attenuation"
             /\ ret'.kind = "err"
             /\ ret'.err.type = "ValueError"
             /\ ret'.err.code = Round2(fr.value)
        ELSE /\ q'.st = "entry"
             /\ q'.command = PackBf(CmdSetAttenuation, Round2(fr.value))
             /\ fr'.op = "set_attenuation"

\* C11, in every state: the range is the body of the one current-state query
\* of this call (the command in flight while the range is awaited is 183); a
\* validation error ends the call after exactly that query with no write and
\* no call of 179; 179 is called or written only after that one query; and a
\* call of 179 that ends without a transport fault has written the command
C11_State ==
    /\ (fr.op = "set_attenuation" /\ fr.pc = "att_range") =>
          /\ q.command = PackB(CmdCurrentState)
          /\ ops.calls[CmdSetAttenuation] = 0
          /\ ops.sent[CmdSetAttenuation] = 0
    /\ (ret.op = "set_attenuation" /\ ret.err.type = "ValueError") =>
          /\ ops.calls[CmdCurrentState] = 1
          /\ \A c \in Codes \ {CmdCurrentState} : ops.calls[c] = 0
          /\ ops.sent[CmdSetAttenuation] = 0
    /\ (ret.op = "set_attenuation" \/ fr.op = "set_attenuation") =>
          /\ ops.calls[CmdCurrentState] <= 1
          /\ ops.calls[CmdSetAttenuation] <= 1
          /\ ops.calls[CmdSetAttenuation] = 1 => ops.calls[CmdCurrentState] = 1
          /\ ops.sent[CmdSetAttenuation] >= 1 => ops.calls[CmdSetAttenuation] = 1
    /\ (fr.op = "set_attenuation" /\ fr.pc = "att_set" /\ q.st = "ret") =>
          (qs.writes >= 1 \/ qs.fault # NoError)

\* C11: the attenuation setter validates the rounded target against the
\* range returned by the current-state query (183) of that same call: outside
\* it the call fails with a validation error after exactly that one query and
\* 179 is never written; inside it, bounds included, 179 is written after
\* the current-state query.
C11_FreshRange == []C11_State /\ [][C11_Validates]_vars

\* C11: a target whose rounded value is outside the fetched range was refused
\* after the one current-state query
C11_Witness ==
    /\ ret.op = "set_attenuation"
    /\ ret.err.type = "ValueError"
    /\ ops.calls[CmdCurrentState] = 1
    /\ ops.wire

\* the running query_device call is a status poll that returned the three flags
PollReturned ==
    /\ q.st = "ret" /\ q.command = PackB(CmdStatus)
    /\ q.res.kind = "ok" /\ Len(q.res.body) = 3

\* the flags just polled decode to Settling / to Correcting
PolledSettling == q.res.body[2] # 1 /\ q.res.body[1] = 1
PolledCorrecting == q.res.body[2] = 1

\* C12, a setter: it enters its wait loop only from the acknowledged set
\* command (header OK, body read), and it returns normally only in the step
\* of a status poll of the wait loop that returned a status other than Settling
C12_Setters ==
    /\ (fr'.pc \in {"wl_wait", "att_wait"} /\ fr.pc # fr'.pc) =>
          /\ fr.pc = IF fr'.pc = "wl_wait" THEN "wl_set" ELSE "att_set"
          /\ q.st = "ret" /\ q.res.kind = "ok" /\ q.error = 0
          /\ q.command.code =
                IF fr'.pc = "wl_wait" THEN CmdSetWavelength ELSE CmdSetAttenuation
          /\ qs.writes >= 1 /\ qs.bodies = 1
    /\ (fr.op \in {"set_wavelength", "set_attenuation"} /\ ret'.kind = "ok") =>
          /\ fr.pc \in {"wl_wait", "att_wait"}
          /\ PollReturned
          /\ ~PolledSettling
          /\ ret'.status # SETTLING

\* C12, do_zero_device: with wait_for_end set it returns normally only in the
\* step of a status poll of the wait loop that returned a status other than
\* Correcting; with wait_for_end unset it returns at the end of the command
\* loop and never polls after it
C12_Zero ==
    /\ (fr.op = "do_zero" /\ ret'.kind = "ok") =>
          IF fr.wait
          THEN fr.pc = "zero_wait" /\ PollReturned /\ ~PolledCorrecting
          ELSE fr.pc \in {"zero_cmd", "zero_recheck"}
    /\ (fr.op = "do_zero" /\ ~fr.wait) => fr'.pc # "zero_wait"

\* C12: a blocking operation returns normally only after the device was
\* observed out of its transitional state: a setter after the acknowledged set
\* command and a later status poll other than Settling; do_zero_device with
\* wait_for_end after a poll other than Correcting, and without wait_for_end
\* with no poll after the command loop.
C12_ReturnsAfterSettled == [][C12_Setters /\ C12_Zero]_vars

\* C12: the wavelength setter returned after at least two status polls
C12_Witness ==
    /\ ret.op = "set_wavelength"
    /\ ret.kind = "ok"
    /\ ret.status = IDLE
    /\ ops.calls[CmdStatus] >= 2

\* C13: for every triple of flags (settling, correcting, defective) in
\* {0,1}^3 returned by the status query on an open session the decoded status
\* follows Correcting > Settling > Defective > Idle, one status per triple.
C13_StatusPrecedence ==
    (ret.op = "status" /\ ret.kind = "ok" /\ ~ret.was_closed) =>
        /\ Len(ret.val) = 3
        /\ \A k \in 1..3 : ret.val[k] \in {0, 1}
        /\ ret.status \in {CORRECTING, SETTLING, DEFECTIVE, IDLE}
        /\ ret.status = CORRECTING <=> ret.val[2] = 1
        /\ ret.status = SETTLING <=> (ret.val[2] = 0 /\ ret.val[1] = 1)
        /\ ret.status = DEFECTIVE <=>
              (ret.val[2] = 0 /\ ret.val[1] = 0 /\ ret.val[3] = 1)
        /\ ret.status = IDLE <=>
              (ret.val[2] = 0 /\ ret.val[1] = 0 /\ ret.val[3] = 0)

\* C13: the status query returned all three flags set and status gave Correcting
C13_Witness ==
    /\ ret.op = "status"
    /\ ret.val = <<1, 1, 1>>
    /\ ret.status = CORRECTING
    /\ ~ret.was_closed

\* C14, the step that reads a header carrying a code other than 0: the code
\* becomes a DeviceError that carries it ("Unknown error" when the code is not
\* in DeviceErrorTypes), the body is not read, and the error is retained and
\* the next attempt started, or raised when the budget is spent
C14_HeaderStep ==
    (q.st = "hdr" /\ q'.st # "hdr" /\ q'.error # 0) =>
        LET e == IF InRange(q.i + 1, q.retry) THEN q'.last_error ELSE q'.res.err IN
        /\ e.type = "DeviceError"
        /\ e.code = q'.error
        /\ (q'.error \notin DeviceErrorTypes) <=> (e.msg = "Unknown error")
        /\ qs'.deverrs = qs.deverrs + 1
        /\ qs'.bodies = 0
        /\ IF InRange(q.i + 1, q.retry)
           THEN q'.st = "purge" /\ q'.i = q.i + 1 /\ q'.res.kind = "none"
           ELSE q'.st = "ret" /\ q'.res.kind = "err"

\* C14, in every state: the body is read and returned only under a header
\* whose code is 0
C14_State ==
    (q.st \in {"body", "purge2"} \/ (q.st = "ret" /\ q.res.kind = "ok")) => q.error = 0

\* C14: every header code other than 0, known or not, is a device error: an
\* unrecognized code is reported as an unknown device error carrying the
\* code, never as success (no body), and is retried and surfaced by
\* query_device like a known one.
C14_UnknownCodeFails == []C14_State /\ [][C14_HeaderStep]_vars

\* C14: a call whose budget of 2 was spent on headers of the unknown code 3
C14_Witness ==
    /\ q.st = "ret"
    /\ q.retry = 2
    /\ qs.deverrs = 2
    /\ q.res.err = Exc("DeviceError", "Unknown error", 3)
    /\ q.last_error = q.res.err

\* C15 as stated: over the whole life of the session object, constructor
\* included, is_closed never changes from true to false.
C15_Monotonic == [][is_closed => is_closed']_vars

\* is_closed changes from true to false only in the step of __init__ in which
\* USBOpen succeeds (lines 43-44), on a session that has no handle yet; no
\* other step changes it but a successful USBClose, from false to true
C15_Step ==
    /\ (is_closed /\ ~is_closed') =>
          (phase = "init" /\ fr.pc = "usb_open" /\ HANDLE = "null" /\ HANDLE' = "open")
    /\ (~is_closed /\ is_closed') =>
          (fr.pc = "usb_close" /\ HANDLE = "open" /\ HANDLE' = "closed")
    /\ HANDLE # "null" => (is_closed => is_closed')

\* C15 amended: is_closed is true from the first statement of the constructor
\* (line 38) until USBOpen succeeds, when the constructor sets it false (line
\* 44); from then on it changes only from false to true, when close() has
\* closed the handle, and never back.
C15_MonotonicOnceOpened ==
    /\ [](HANDLE = "null" => is_closed)
    /\ [](HANDLE = "closed" => is_closed)
    /\ [][C15_Step]_vars

\* C15: a session that was opened by its constructor has been closed by its
\* finalizer: the flag went true, false, true
C15_Witness ==
    /\ phase = "dead"
    /\ ret.op = "del"
    /\ ret.had_handle
    /\ ~ret.was_closed
    /\ is_closed
    /\ HANDLE = "closed"

\* the status re-check that follows a failed attempt of do_zero_device has returned
Rechecked == fr.op = "do_zero" /\ fr.pc = "zero_recheck" /\ PollReturned

\* C16, the steps around the re-check: it is made after an attempt that
\* failed, whose error it keeps; when it returns Correcting the loop ends with
\* no error, into the wait when wait_for_end is set; when it returns another
\* status the error of the attempt is retained and the next attempt of the
\* loop, if one is left, is made
C16_Step ==
    /\ (fr'.pc = "zero_recheck" /\ fr.pc # "zero_recheck") =>
          /\ fr.pc = "zero_cmd"
          /\ q.command = PackB(CmdDoZero) /\ q.st = "ret" /\ q.res.kind = "err"
          /\ fr'.err = q.res.err
          /\ q'.command = PackB(CmdStatus) /\ q'.st = "entry"
    /\ Rechecked =>
          IF PolledCorrecting
          THEN /\ ret'.kind # "err"
               /\ q'.command # PackB(CmdDoZero)
               /\ IF fr.wait
                  THEN fr'.pc = "zero_wait" /\ q'.command = PackB(CmdStatus)
                  ELSE ret'.op = "do_zero" /\ ret'.kind = "ok"
          ELSE IF fr.i + 1 < ZeroAttempts
          THEN /\ fr'.pc = "zero_cmd"
               /\ fr'.i = fr.i + 1
               /\ fr'.current_error = fr.err
               /\ q'.command = PackB(CmdDoZero) /\ q'.st = "entry"
               /\ ret'.kind = "none"
          ELSE ret'.op = "do_zero" /\ ret'.kind = "err" /\ ret'.err = fr.err
    /\ fr.pc = "zero_wait" => fr'.pc \in {"zero_wait", "none"}

\* C16: when an attempt to send the do-zero command fails and the status
\* re-check that follows returns Correcting, do_zero_device takes the command
\* as accepted: no further attempt, no error, on to the optional wait; when
\* the re-check returns another status the error of the attempt is retained
\* and the next attempt is made.
C16_AckRace == [][C16_Step]_vars

\* C16: do_zero_device returned normally after a first attempt whose re-check
\* was not Correcting and a later one whose re-check was
C16_Witness ==
    /\ ret.op = "do_zero"
    /\ ret.kind = "ok"
    /\ ret.status = IDLE
    /\ ops.calls[CmdDoZero] >= 2

\* C17: once its precondition has passed, do_zero_device fails only out of
\* its outer loop exhausted: a failure of an attempt or of the status re-check
\* that follows it is retained and the loop continues, at most 10 attempts are
\* made, and the error raised is the one retained from the 10th attempt.
C17_FailsAfterTenAttempts ==
    [][/\ (fr.op = "do_zero" /\ fr.pc \in {"zero_cmd", "zero_recheck"}) =>
             /\ fr.i < ZeroAttempts
             /\ ret'.kind = "err" =>
                   /\ fr.i = ZeroAttempts - 1
                   /\ ret'.err = IF fr.pc = "zero_cmd" THEN q.res.err ELSE fr.err
       ]_vars

\* C18, each transport call of a query_device call, by the calls made before
\* it in the same call: a write follows the purge of its attempt, a header
\* read follows the write of its attempt, the body read is the first one and
\* follows a header whose code is OK, and a purge either opens an attempt
\* (every earlier attempt ended on a device-error header, no body read) or
\* follows the body read
C18_Step ==
    /\ qs'.writes = qs.writes + 1 =>
          (qs.purges = qs.writes + 1 /\ qs.headers = qs.writes /\ qs.bodies = 0)
    /\ qs'.headers = qs.headers + 1 =>
          (qs.writes = qs.headers + 1 /\ qs.purges = qs.writes /\ qs.bodies = 0)
    /\ qs'.bodies = qs.bodies + 1 =>
          /\ qs.bodies = 0
          /\ q.error = 0
          /\ qs.headers >= 1
          /\ qs.headers = qs.writes /\ qs.purges = qs.writes
          /\ qs.deverrs = qs.headers - 1
    /\ qs'.purges = qs.purges + 1 =>
          \/ /\ qs.bodies = 0
             /\ qs.purges = qs.writes /\ qs.writes = qs.headers
             /\ qs.deverrs = qs.headers
          \/ qs.bodies = 1 /\ qs.purges = qs.headers
    /\ qs'.deverrs = qs.deverrs + 1 => qs'.bodies = 0

\* C18, in every state: at most one body read in a call, and a call that
\* returns the body has read it and purged once more after it
C18_State ==
    /\ qs.bodies <= 1
    /\ (q.st = "ret" /\ q.res.kind = "ok") =>
          (qs.bodies = 1 /\ qs.purges = qs.headers + 1 /\ qs.writes = qs.headers)

\* C18: every attempt of query_device runs purge, write, header read in that
\* order; the body is read at most once per call, only after a header whose
\* code is OK, and is followed by a second purge before it is returned; after
\* a device-error header the body is not read and the next attempt starts
\* with a purge.
C18_StepOrder == []C18_State /\ [][C18_Step]_vars

\* C18: a call returned the body in its second attempt, after a device-error
\* header in the first
C18_Witness ==
    /\ q.st = "ret"
    /\ q.res.kind = "ok"
    /\ qs.deverrs = 1
    /\ qs.purges = 3
    /\ qs.writes = 2
    /\ qs.headers = 2
    /\ qs.bodies = 1

\* a status poll of a wait loop has returned the flags of the status the loop
\* waits on
PolledAwaited ==
    /\ fr.pc \in WaitPcs
    /\ PollReturned
    /\ IF fr.pc = "zero_wait" THEN PolledCorrecting ELSE PolledSettling

\* C19, a step of a wait loop: after a poll that returned the awaited status
\* the call has not returned and polls again, in the same state as before the
\* poll (the loop counts nothing); after a poll that returned another status
\* it returns normally; it ends with an error only on a failed poll
C19_Step ==
    /\ PolledAwaited =>
          /\ fr' = fr
          /\ q' = StartQuery(PackB(CmdStatus), DefaultRetry)
          /\ ret'.kind = "none"
    /\ (fr.pc \in WaitPcs /\ PollReturned /\ ~PolledAwaited) =>
          (ret'.op = fr.op /\ ret'.kind = "ok")
    /\ (fr.pc \in WaitPcs /\ ret'.kind = "err") =>
          (q.st = "ret" /\ ~PollReturned)

\* C19: the polling waits have no bound of their own: a setter waiting on
\* Settling or do_zero_device waiting on Correcting keeps polling, and does
\* not return, while the device reports the awaited status; it returns when
\* the device reports another one; and when the device eventually leaves that
\* status the call terminates.
C19_WaitTerminates ==
    /\ [][C19_Step]_vars
    /\ (fr.pc \in WaitPcs) ~> (fr.op = "none")

\* C19: the attenuation setter returned out of its wait loop after at least
\* two polls of the loop
C19_Witness ==
    /\ ret.op = "set_attenuation"
    /\ ret.kind = "ok"
    /\ ret.status = DEFECTIVE
    /\ ops.calls[CmdStatus] >= 2

\* C20: when a step of the constructor after the handle was opened fails,
\* the finalization of the failed session object (__del__, close) leaves the
\* transport handle closed: no handle is leaked.
C20_NoLeakOnFailedOpen ==
    [][(phase = "failed" /\ phase' = "dead") => HANDLE' # "open"]_vars

====
